---- MODULE Spec2Model ----
(***************************************************************************)
(* pandoc-bot (src/src/main.rs): a Telegram dialogue bot that collects a   *)
(* conversion request (source format, target format, file), publishes it   *)
(* to the AMQP queue "pandoc-bot-jobs" and routes the worker's answers     *)
(* from the queue "pandoc-outputs" back to the chat that asked.            *)
(*                                                                         *)
(* Every .await of a handler is a step; awaits in a row that touch nothing *)
(* another task can see are one step.  Every awaited call may fail, and    *)
(* the `?` after it makes the handler return the error.                    *)
(***************************************************************************)
EXTENDS Naturals, Sequences, FiniteSets, TLC

\* ---------------------------------------------------------------- bounds
NumChats == 2
NumFiles == 2
MaxUpdates == 3
MaxOutputs == 1

Chats == 1..NumChats
FileIds == 1..NumFiles

\* ------------------------------------------------------------- constants
FROM_FILETYPES == {"markdown"}
TO_FILETYPES == {"pdf", "latex", "docx", "odt"}

Null == ""
NoData == "<none>"
NoDoc == 0
NoBytes == 0

\* enum State: the variants the handlers construct, as uniform records.
Start == [tag |-> "Start", from_filetype |-> Null, to_filetype |-> Null]
ReceiveFromFiletype ==
  [tag |-> "ReceiveFromFiletype", from_filetype |-> Null, to_filetype |-> Null]
ReceiveToFiletype(f) ==
  [tag |-> "ReceiveToFiletype", from_filetype |-> f, to_filetype |-> Null]
ReceiveInputFile(f, t) ==
  [tag |-> "ReceiveInputFile", from_filetype |-> f, to_filetype |-> t]

\* What the SqliteStorage file can hold when it is opened: the dialogue
\* states an earlier run of the bot saved.
StoredStates ==
  {Start, ReceiveFromFiletype}
    \cup {ReceiveToFiletype(f) : f \in FROM_FILETYPES}
    \cup {ReceiveInputFile(f, t) : f \in FROM_FILETYPES, t \in TO_FILETYPES}

\* --------------------------------------------------------------- updates
\* A Telegram update: a message (with or without a document) or a callback
\* query (with or without data).
CallbackData == FROM_FILETYPES \cup TO_FILETYPES \cup {"bogus"}
TextMessage == [kind |-> "message", doc |-> NoDoc, data |-> Null]
DocMessage(fid) == [kind |-> "message", doc |-> fid, data |-> Null]
Callback(d) == [kind |-> "callback", doc |-> NoDoc, data |-> d]
Updates ==
  {TextMessage}
    \cup {DocMessage(fid) : fid \in FileIds}
    \cup {Callback(d) : d \in CallbackData \cup {NoData}}

\* The bytes Telegram holds for a file id.
TgFileBytes(fid) == 100 + fid

\* fn filetype_to_extension
filetype_to_extension(filetype) ==
  CASE filetype = "markdown" -> "md"
    [] filetype = "pdf" -> "pdf"
    [] filetype = "latex" -> "tex"
    [] filetype = "docx" -> "docx"
    [] filetype = "odt" -> "odt"
    [] OTHER -> "txt"

VARIABLES
  store,     \* SqliteStorage: chat id -> dialogue state
  tasks,     \* the handler invocations the dispatcher is running
  nupd,      \* updates the dispatcher has taken from Telegram
  disk,      \* inputs/<file_id>: the staged bytes, NoBytes when absent
  jobs,      \* queue "pandoc-bot-jobs": the requests not yet taken
  outputs,   \* queue "pandoc-outputs": the responses ready for delivery
  consumer,  \* the listen_returning_queue task
  main,      \* where fn main is: dispatching, closed, exited
  hist       \* per chat, the updates handled in a row that follow the
             \* dialogue choose-from, choose-to, send-file (history variable)

vars == <<store, tasks, nupd, disk, jobs, outputs, consumer, main, hist>>

\* ------------------------------------------------------------ dispatcher
\* bot_scheme: the endpoint the dptree picks for a loaded state and an
\* update; "none" when no branch matches and the update falls through.
bot_scheme(state, upd) ==
  IF upd.kind = "message"
    THEN CASE state.tag = "Start" -> "start"
           [] state.tag = "ReceiveInputFile" -> "receive_input_file"
           [] OTHER -> "none"
    ELSE CASE state.tag = "ReceiveFromFiletype" -> "receive_from_filetype"
           [] state.tag = "ReceiveToFiletype" -> "receive_to_filetype"
           [] OTHER -> "none"

\* The first await of each endpoint.
FirstPc(handler, upd) ==
  CASE handler = "start" -> "send"
    [] handler = "receive_from_filetype" -> "answer"
    [] handler = "receive_to_filetype" -> "answer"
    [] handler = "receive_input_file" ->
         IF upd.doc # NoDoc THEN "stage" ELSE "send"
    [] OTHER -> "done"

\* A handler invocation: the dialogue (chat, state loaded by
\* dialogue::enter), the update, where the handler is, what it returned,
\* whether dialogue.update has written, and what it sent and published.
NewTask(c, upd, handler, res) ==
  [chat |-> c, upd |-> upd, state |-> store[c], handler |-> handler,
   pc |-> FirstPc(handler, upd), res |-> res, saved |-> FALSE,
   sent |-> <<>>, pub |-> <<>>, bin |-> NoBytes]

\* Mutant of CanDispatch: updates of one chat handled concurrently.
CanDispatchAlways(c) == TRUE

\* Dispatcher::builder(..).build(): the default distribution function keys
\* an update by its chat, and updates with the same key are handled one
\* after the other.
CanDispatch(c) == \A t \in tasks : t.chat # c

\* -------------------------------------------------------------- handlers
\* Mutant of ValidFrom: the membership test of the source format dropped.
ValidFromAny(d) == TRUE
ValidFrom(d) == d \in FROM_FILETYPES

\* Mutant of ValidTo: the membership test of the target format dropped.
ValidToAny(d) == TRUE
ValidTo(d) == d \in TO_FILETYPES

\* Whether the endpoint takes its success path for this update.
Accepts(t) ==
  CASE t.handler = "start" -> TRUE
    [] t.handler = "receive_from_filetype" ->
         t.upd.data # NoData /\ ValidFrom(t.upd.data)
    [] t.handler = "receive_to_filetype" ->
         t.upd.data # NoData /\ ValidTo(t.upd.data)
    [] t.handler = "receive_input_file" -> t.upd.doc # NoDoc
    [] OTHER -> FALSE

\* The message the endpoint sends: make_success_msg or make_fail_msg.
Reply(t) ==
  CASE t.handler = "start" -> "choose_from"
    [] t.handler = "receive_from_filetype" ->
         IF Accepts(t) THEN "from_set_choose_to" ELSE "retry_from"
    [] t.handler = "receive_to_filetype" ->
         IF Accepts(t) THEN "to_set_send_file" ELSE "retry_to"
    [] t.handler = "receive_input_file" ->
         IF Accepts(t) THEN "converting" ELSE "retry_file"
    [] OTHER -> Null

\* Mutant of NextState: start goes straight to the target choice, the
\* only source format filled in.
NextStateSkip(t) ==
  CASE t.handler = "start" -> ReceiveToFiletype("markdown")
    [] t.handler = "receive_from_filetype" -> ReceiveToFiletype(t.upd.data)
    [] t.handler = "receive_to_filetype" ->
         ReceiveInputFile(t.state.from_filetype, t.upd.data)
    [] t.handler = "receive_input_file" -> Start
    [] OTHER -> t.state

\* The state the endpoint passes to dialogue.update.
NextState(t) ==
  CASE t.handler = "start" -> ReceiveFromFiletype
    [] t.handler = "receive_from_filetype" -> ReceiveToFiletype(t.upd.data)
    [] t.handler = "receive_to_filetype" ->
         ReceiveInputFile(t.state.from_filetype, t.upd.data)
    [] t.handler = "receive_input_file" -> Start
    [] OTHER -> t.state

\* Mutant of UpdateKey: every dialogue stored under one key.
UpdateKeyShared(t) == 1

\* The chat whose dialogue the handler writes.
UpdateKey(t) == t.chat

Step(t, u) == (tasks \ {t}) \cup {u}
Fail(t) == [t EXCEPT !.pc = "done", !.res = "err"]
Return(t) == [t EXCEPT !.pc = "done", !.res = "ok"]

\* receive_from_filetype / receive_to_filetype: answer_callback_query,
\* q.chat_id() and remove_keyboard_from.
Answer(t) ==
  /\ t.pc = "answer"
  /\ \E ok \in BOOLEAN :
       tasks' = Step(t, IF ok THEN [t EXCEPT !.pc = "send"] ELSE Fail(t))
  /\ UNCHANGED <<store, nupd, disk, jobs, outputs, consumer, main, hist>>

\* receive_input_file: get_file, create_dir_all, File::create,
\* download_file and sync_all stage the document under inputs/<file_id>.
Stage(t) ==
  /\ t.pc = "stage"
  /\ \E ok \in BOOLEAN :
       IF ok
         THEN /\ disk' = [disk EXCEPT ![t.upd.doc] = TgFileBytes(t.upd.doc)]
              /\ tasks' = Step(t, [t EXCEPT !.pc = "send"])
         ELSE /\ disk' = disk
              /\ tasks' = Step(t, Fail(t))
  /\ UNCHANGED <<store, nupd, jobs, outputs, consumer, main, hist>>

\* Mutant of Send: the result of the send is not looked at.
SendUnchecked(t) ==
  /\ t.pc = "send"
  /\ \E ok \in BOOLEAN :
       LET u == IF ok THEN [t EXCEPT !.sent = Append(@, Reply(t))] ELSE t
       IN tasks' = Step(t,
            IF Accepts(t) THEN [u EXCEPT !.pc = "update"] ELSE Return(u))
  /\ UNCHANGED <<store, nupd, disk, jobs, outputs, consumer, main, hist>>

\* bot.send_message(..).send().await? of every endpoint; the success
\* message is followed by dialogue.update, the fail message by Ok(()).
Send(t) ==
  /\ t.pc = "send"
  /\ \E ok \in BOOLEAN :
       tasks' = Step(t,
         IF ok
           THEN IF Accepts(t)
                  THEN [t EXCEPT !.pc = "update",
                                 !.sent = Append(@, Reply(t))]
                  ELSE [Return(t) EXCEPT !.sent = Append(@, Reply(t))]
           ELSE Fail(t))
  /\ UNCHANGED <<store, nupd, disk, jobs, outputs, consumer, main, hist>>

\* Mutant of Update: a failed write has stored the new state all the same.
UpdateTorn(t) ==
  /\ t.pc = "update"
  /\ store' = [store EXCEPT ![UpdateKey(t)] = NextState(t)]
  /\ \E ok \in BOOLEAN :
       tasks' = Step(t,
         IF ok
           THEN IF t.handler = "receive_input_file"
                  THEN [t EXCEPT !.pc = "read", !.saved = TRUE]
                  ELSE [Return(t) EXCEPT !.saved = TRUE]
           ELSE Fail(t))
  /\ UNCHANGED <<nupd, disk, jobs, outputs, consumer, main, hist>>

\* Mutant of Update: the write reports success and stores nothing.
UpdateLost(t) ==
  /\ t.pc = "update"
  /\ store' = store
  /\ \E ok \in BOOLEAN :
       tasks' = Step(t,
         IF ok
           THEN IF t.handler = "receive_input_file"
                  THEN [t EXCEPT !.pc = "read", !.saved = TRUE]
                  ELSE [Return(t) EXCEPT !.saved = TRUE]
           ELSE Fail(t))
  /\ UNCHANGED <<nupd, disk, jobs, outputs, consumer, main, hist>>

\* dialogue.update(next_state).await?
Update(t) ==
  /\ t.pc = "update"
  /\ \E ok \in BOOLEAN :
       IF ok
         THEN /\ store' = [store EXCEPT ![UpdateKey(t)] = NextState(t)]
              /\ tasks' = Step(t,
                   IF t.handler = "receive_input_file"
                     THEN [t EXCEPT !.pc = "read", !.saved = TRUE]
                     ELSE [Return(t) EXCEPT !.saved = TRUE])
         ELSE /\ store' = store
              /\ tasks' = Step(t, Fail(t))
  /\ UNCHANGED <<nupd, disk, jobs, outputs, consumer, main, hist>>

\* receive_input_file: tokio::fs::read of the staged file and
\* amqp_conn.create_channel.
Read(t) ==
  /\ t.pc = "read"
  /\ \E ok \in BOOLEAN :
       tasks' = Step(t,
         IF ok THEN [t EXCEPT !.pc = "publish", !.bin = disk[t.upd.doc]]
               ELSE Fail(t))
  /\ UNCHANGED <<store, nupd, disk, jobs, outputs, consumer, main, hist>>

\* Mutant of ConvertRequest: the two format fields exchanged.
ConvertRequestSwapped(t) ==
  [chat_id |-> t.chat, file |-> t.bin, file_id |-> t.upd.doc,
   from_filetype |-> t.state.to_filetype,
   to_filetype |-> t.state.from_filetype]

\* Mutant of ConvertRequest: the chat id of the first chat in every
\* request.
ConvertRequestFirstChat(t) ==
  [chat_id |-> 1, file |-> t.bin, file_id |-> t.upd.doc,
   from_filetype |-> t.state.from_filetype,
   to_filetype |-> t.state.to_filetype]

\* struct ConvertRequest as receive_input_file fills it.
ConvertRequest(t) ==
  [chat_id |-> t.chat, file |-> t.bin, file_id |-> t.upd.doc,
   from_filetype |-> t.state.from_filetype,
   to_filetype |-> t.state.to_filetype]

\* receive_input_file: bson::to_vec and basic_publish(..).await?.await?:
\* the broker takes the request and confirms it, or the publish fails, or
\* the broker takes it and the confirmation fails.
Publish(t) ==
  /\ t.pc = "publish"
  /\ \E out \in {"confirmed", "not_sent", "not_confirmed"} :
       LET req == ConvertRequest(t)
       IN IF out = "not_sent"
            THEN /\ jobs' = jobs
                 /\ tasks' = Step(t, Fail(t))
            ELSE /\ jobs' = Append(jobs, req)
                 /\ tasks' = Step(t,
                      [(IF out = "confirmed" THEN Return(t) ELSE Fail(t))
                         EXCEPT !.pub = Append(@, req)])
  /\ UNCHANGED <<store, nupd, disk, outputs, consumer, main, hist>>

\* -------------------------------------------------------------- dispatch
\* hist is a history variable: no code reads it.  It keeps, per chat, the
\* updates handled in a row that follow the dialogue a conversion takes (a
\* callback with a source format, a callback with a target format, a
\* document), the state the first was entered with, what each handler
\* returned and what they published.
IsScenario(evs) ==
  /\ Len(evs) <= 3
  /\ Len(evs) >= 1 =>
       evs[1].kind = "callback" /\ evs[1].data \in FROM_FILETYPES
  /\ Len(evs) >= 2 =>
       evs[2].kind = "callback" /\ evs[2].data \in TO_FILETYPES
  /\ Len(evs) >= 3 => evs[3].kind = "message" /\ evs[3].doc # NoDoc

NoHist == [base |-> Start, evs |-> <<>>, res |-> <<>>, pub |-> <<>>]

\* hist after the handler invocation t has returned: t's update extends the
\* dialogue followed so far, or starts one, or ends it.
Record(h, t) ==
  IF IsScenario(Append(h.evs, t.upd))
    THEN [base |-> IF h.evs = <<>> THEN t.state ELSE h.base,
          evs |-> Append(h.evs, t.upd),
          res |-> Append(h.res, t.res),
          pub |-> h.pub \o t.pub]
    ELSE IF IsScenario(<<t.upd>>)
      THEN [base |-> t.state, evs |-> <<t.upd>>, res |-> <<t.res>>,
            pub |-> t.pub]
      ELSE NoHist

\* dialogue::enter loads the chat's state (Start when absent) and the tree
\* picks the endpoint; when no branch matches the update falls through.
\* When the load fails the update is dropped before any endpoint is picked.
Dispatch(c, upd) ==
  /\ main = "dispatching"
  /\ nupd < MaxUpdates
  /\ CanDispatch(c)
  /\ nupd' = nupd + 1
  /\ \E loaded \in BOOLEAN :
       LET h == bot_scheme(store[c], upd)
           r == IF h = "none" THEN "unhandled" ELSE "running"
       IN IF loaded
            THEN /\ tasks' = tasks \cup {NewTask(c, upd, h, r)}
                 /\ hist' = hist
            ELSE /\ tasks' = tasks
                 /\ hist' = [hist EXCEPT ![c] =
                      Record(@, NewTask(c, upd, "none", "load_err"))]
  /\ UNCHANGED <<store, disk, jobs, outputs, consumer, main>>

\* The handler has returned (Ok, Err, or the update fell through): the
\* dispatcher's worker for the chat is free for the chat's next update.
TaskReturn(t) ==
  /\ t.pc = "done"
  /\ tasks' = tasks \ {t}
  /\ hist' = [hist EXCEPT ![t.chat] = Record(@, t)]
  /\ UNCHANGED <<store, nupd, disk, jobs, outputs, consumer, main>>

\* ---------------------------------------------------------------- worker
\* The documents on "pandoc-outputs", by the fields present in them.
SuccessDoc(job) ==
  [has |-> {"chat_id", "file", "to_filetype"}, chat_id |-> job.chat_id,
   file |-> 1000 + job.file, to_filetype |-> job.to_filetype,
   error_msg |-> Null]
FailureDoc(job) ==
  [has |-> {"chat_id", "error_msg"}, chat_id |-> job.chat_id,
   file |-> NoBytes, to_filetype |-> Null, error_msg |-> "pandoc error"]
MalformedDoc ==
  [has |-> {"garbage"}, chat_id |-> 0, file |-> NoBytes,
   to_filetype |-> Null, error_msg |-> Null]
NoDelivery ==
  [has |-> {}, chat_id |-> 0, file |-> NoBytes, to_filetype |-> Null,
   error_msg |-> Null]

\* The conversion worker takes a request and answers with a success, a
\* failure, or bytes that are no response.
Worker ==
  /\ jobs # <<>>
  /\ jobs' = Tail(jobs)
  /\ \E doc \in {SuccessDoc(Head(jobs)), FailureDoc(Head(jobs)),
                 MalformedDoc} :
       outputs' = Append(outputs, doc)
  /\ UNCHANGED <<store, tasks, nupd, disk, consumer, main, hist>>

\* At-least-once delivery: a request whose answer was published but whose
\* acknowledgement was lost stays on the queue, to be answered again.
WorkerRedelivered ==
  /\ jobs # <<>>
  /\ Len(outputs) < MaxOutputs
  /\ \E doc \in {SuccessDoc(Head(jobs)), FailureDoc(Head(jobs))} :
       outputs' = Append(outputs, doc)
  /\ UNCHANGED <<store, tasks, nupd, disk, jobs, consumer, main, hist>>

\* -------------------------------------------------------------- consumer
\* bson::from_slice into the untagged enum ConvertResponse: the first
\* variant whose fields are all present; unknown fields are ignored.
Decode(doc) ==
  IF {"chat_id", "file", "to_filetype"} \subseteq doc.has
    THEN [kind |-> "Success", chat_id |-> doc.chat_id, file |-> doc.file,
          to_filetype |-> doc.to_filetype, error_msg |-> Null]
    ELSE IF {"chat_id", "error_msg"} \subseteq doc.has
      THEN [kind |-> "Failure", chat_id |-> doc.chat_id, file |-> NoBytes,
            to_filetype |-> Null, error_msg |-> doc.error_msg]
      ELSE [kind |-> "Error", chat_id |-> 0, file |-> NoBytes,
            to_filetype |-> Null, error_msg |-> Null]

\* The Messenger call of a decoded response: send_document to chat_id with
\* the file as output.<ext>, or send_message to chat_id with the error.
\* Mutant of RouteTo: every result sent to one fixed chat.
RouteToFixed(res) == 1
RouteTo(res) == res.chat_id
\* Mutant of Route: a response equal to the one routed just before is
\* answered with a notice instead of being routed again.
RouteOnce(res) ==
  IF consumer.prev # <<>> /\ Decode(consumer.prev[1].doc) = res
    THEN [to |-> RouteTo(res), kind |-> "text", file |-> NoBytes,
          name |-> Null, text |-> "already delivered"]
    ELSE IF res.kind = "Success"
      THEN [to |-> RouteTo(res), kind |-> "document", file |-> res.file,
            name |-> filetype_to_extension(res.to_filetype), text |-> Null]
      ELSE [to |-> RouteTo(res), kind |-> "text", file |-> NoBytes,
            name |-> Null, text |-> res.error_msg]

Route(res) ==
  IF res.kind = "Success"
    THEN [to |-> RouteTo(res), kind |-> "document", file |-> res.file,
          name |-> filetype_to_extension(res.to_filetype), text |-> Null]
    ELSE [to |-> RouteTo(res), kind |-> "text", file |-> NoBytes,
          name |-> Null, text |-> res.error_msg]

\* History kept in consumer.prev, which no code reads: the delivery the
\* consumer routed before the one it holds, with the Messenger call made
\* for it.
Routed(con) ==
  IF con.sent # <<>>
    THEN <<[doc |-> con.cur, msg |-> con.sent[1]]>>
    ELSE con.prev

\* consumer.next().await, delivery? and bson::from_slice(..)?: an error
\* ends the task with the delivery unacknowledged, back on the queue.
\* Once the connection is closed the stream has ended: the loop is left
\* and the task returns Ok(()).
ConsumerNext ==
  /\ consumer.pc = "next"
  /\ main # "exited"
  /\ IF main = "closed"
       THEN /\ consumer' = [consumer EXCEPT !.pc = "ended"]
            /\ outputs' = outputs
       ELSE /\ outputs # <<>>
            /\ \E ok \in BOOLEAN :
                 LET d == Head(outputs)
                 IN IF ok /\ Decode(d).kind # "Error"
                      THEN /\ outputs' = Tail(outputs)
                           /\ consumer' = [pc |-> "ack", cur |-> d,
                                           acked |-> FALSE, sent |-> <<>>,
                                           prev |-> Routed(consumer)]
                      ELSE /\ outputs' = outputs
                           /\ consumer' =
                                [pc |-> "stopped",
                                 cur |-> IF ok THEN d ELSE NoDelivery,
                                 acked |-> FALSE, sent |-> <<>>,
                                 prev |-> Routed(consumer)]
  /\ UNCHANGED <<store, tasks, nupd, disk, jobs, main, hist>>

\* delivery.ack(..).await?: on a closed connection it fails.  The broker
\* puts a delivery that was not acknowledged back on the queue.
ConsumerAck ==
  /\ consumer.pc = "ack"
  /\ main # "exited"
  /\ \E ok \in BOOLEAN :
       IF ok /\ main = "dispatching"
         THEN /\ consumer' = [consumer EXCEPT !.pc = "route", !.acked = TRUE]
              /\ outputs' = outputs
         ELSE /\ consumer' = [consumer EXCEPT !.pc = "stopped"]
              /\ outputs' = <<consumer.cur>> \o outputs
  /\ UNCHANGED <<store, tasks, nupd, disk, jobs, main, hist>>

\* match res: bot.send_document(..).await? or bot.send_message(..).await?,
\* then the loop takes the next delivery.
ConsumerRoute ==
  /\ consumer.pc = "route"
  /\ main # "exited"
  /\ \E ok \in BOOLEAN :
       consumer' =
         IF ok THEN [consumer EXCEPT
                       !.pc = "next",
                       !.sent = Append(@, Route(Decode(consumer.cur)))]
               ELSE [consumer EXCEPT !.pc = "stopped"]
  /\ UNCHANGED <<store, tasks, nupd, disk, jobs, outputs, main, hist>>

\* ------------------------------------------------------------------ main
\* dispatch().await returns (ctrl-c, every handler finished), then
\* amqp_conn.close(0, "").await?: when the close fails main returns the
\* error, the runtime is dropped and the consumer task with it, wherever
\* it is.
Shutdown ==
  /\ main = "dispatching"
  /\ tasks = {}
  /\ \E ok \in BOOLEAN :
       IF ok \/ consumer.pc = "stopped"
         THEN /\ main' = IF ok THEN "closed" ELSE "exited"
              /\ consumer' = consumer
              /\ outputs' = outputs
         ELSE /\ main' = "exited"
              /\ consumer' = [consumer EXCEPT !.pc = "dropped"]
              /\ outputs' = IF consumer.pc = "ack"
                              THEN <<consumer.cur>> \o outputs
                              ELSE outputs
  /\ UNCHANGED <<store, tasks, nupd, disk, jobs, hist>>

\* returning_queue_task.await??: main waits for the consumer task to
\* return, Ok or Err, and returns.
Exit ==
  /\ main = "closed"
  /\ consumer.pc \in {"stopped", "ended"}
  /\ main' = "exited"
  /\ UNCHANGED <<store, tasks, nupd, disk, jobs, outputs, consumer, hist>>

\* --------------------------------------------------------- specification
\* main: the storage file is opened with the dialogues an earlier run
\* saved, the consumer is spawned and the dispatcher started.
Init ==
  /\ store \in [Chats -> StoredStates]
  /\ tasks = {}
  /\ nupd = 0
  /\ disk = [fid \in FileIds |-> NoBytes]
  /\ jobs = <<>>
  /\ outputs = <<>>
  /\ consumer = [pc |-> "next", cur |-> NoDelivery, acked |-> FALSE,
                 sent |-> <<>>, prev |-> <<>>]
  /\ main = "dispatching"
  /\ hist = [c \in Chats |-> NoHist]

Next ==
  \/ \E c \in Chats, upd \in Updates : Dispatch(c, upd)
  \/ \E t \in tasks : Answer(t)
  \/ \E t \in tasks : Stage(t)
  \/ \E t \in tasks : Send(t)
  \/ \E t \in tasks : Update(t)
  \/ \E t \in tasks : Read(t)
  \/ \E t \in tasks : Publish(t)
  \/ \E t \in tasks : TaskReturn(t)
  \/ Worker
  \/ ConsumerNext
  \/ ConsumerAck
  \/ ConsumerRoute
  \/ Shutdown
  \/ Exit

Spec == Init /\ [][Next]_vars

\* The same program on a broker that redelivers, started with every chat
\* awaiting the file of a markdown to pdf conversion.
InitRedelivery ==
  /\ Init
  /\ \A c \in Chats : store[c] = ReceiveInputFile("markdown", "pdf")

NextRedelivery == Next \/ WorkerRedelivered

SpecRedelivery == InitRedelivery /\ [][NextRedelivery]_vars

\* ================================================================ claims
Idle(c) == \A t \in tasks : t.chat # c
Failed(r) == r \in {"err", "load_err"}
AllOk(rs) == \A i \in DOMAIN rs : rs[i] = "ok"
NoFailure(rs) == \A i \in DOMAIN rs : ~Failed(rs[i])

\* C1 (as claimed): a delivery is acknowledged only after its Messenger
\* action has completed, so an acknowledged response has been routed.
C1_AckOnlyAfterRouted == consumer.acked => consumer.sent # <<>>

\* The event of invocation t is invalid for the state it was loaded in: a
\* choice outside the offered formats, a callback without data, a message
\* without a document where a file is awaited.
Invalid(t) ==
  \/ /\ t.state.tag = "ReceiveFromFiletype"
     /\ t.upd.kind = "callback"
     /\ t.upd.data \notin FROM_FILETYPES
  \/ /\ t.state.tag = "ReceiveToFiletype"
     /\ t.upd.kind = "callback"
     /\ t.upd.data \notin TO_FILETYPES
  \/ /\ t.state.tag = "ReceiveInputFile"
     /\ t.upd.kind = "message"
     /\ t.upd.doc = NoDoc

\* C2: rejection never mutates state: while and after an invalid event is
\* handled, the chat's stored state is the one the handler was entered
\* with, the handler has written nothing and published no job.
C2_RejectionKeepsState ==
  \A t \in tasks :
    Invalid(t) => store[t.chat] = t.state /\ ~t.saved /\ t.pub = <<>>

\* C2 witness: an invalid choice has been handled to the end and answered
\* with the corrective prompt.
C2_Witness ==
  \E t \in tasks :
    /\ Invalid(t)
    /\ t.pc = "done"
    /\ t.res = "ok"
    /\ t.sent \in {<<"retry_from">>, <<"retry_to">>, <<"retry_file">>}

\* The request the dialogue evs of chat c must have published.
Expected(c, evs) ==
  [chat_id |-> c, file |-> TgFileBytes(evs[3].doc), file_id |-> evs[3].doc,
   from_filetype |-> evs[1].data, to_filetype |-> evs[2].data]

C4_RoutedToItsChat ==
  /\ Len(consumer.sent) <= 1
  /\ (consumer.pc = "next" /\ consumer.cur # NoDelivery)
       => Len(consumer.sent) = 1
  /\ \A i \in DOMAIN consumer.sent :
       LET m == consumer.sent[i]
       IN /\ m.to = consumer.cur.chat_id
          /\ "file" \in consumer.cur.has
               => m.kind = "document" /\ m.file = consumer.cur.file
          /\ "file" \notin consumer.cur.has
               => m.kind = "text" /\ m.text = consumer.cur.error_msg

\* C4 witness: a response has been routed to its chat while another chat
\* is in the middle of its dialogue, a handler of it running.
C4_Witness ==
  /\ consumer.pc = "next"
  /\ Len(consumer.sent) = 1
  /\ \E t \in tasks :
       /\ t.chat # consumer.sent[1].to
       /\ t.pc # "done"
       /\ store[t.chat] # Start

\* The event of invocation t has the wrong type for the state: a message
\* where a choice is awaited, a callback where a file is awaited.
IllTyped(t) ==
  \/ t.state.tag \in {"ReceiveFromFiletype", "ReceiveToFiletype"}
       /\ t.upd.kind = "message"
  \/ t.state.tag = "ReceiveInputFile" /\ t.upd.kind = "callback"

\* C5 (as claimed): an ill-typed event whose handling did not fail is
\* answered with a corrective message, the state unchanged.
C5_IllTypedAnswered ==
  \A t \in tasks :
    (IllTyped(t) /\ t.pc = "done" /\ ~Failed(t.res))
      => t.sent # <<>> /\ store[t.chat] = t.state

\* C6 (as claimed): any event handled from Start without a failure leaves
\* the chat in ReceiveFromFiletype, the source-format prompt sent.
C6_AnyEventStarts ==
  \A t \in tasks :
    (t.state = Start /\ t.pc = "done" /\ ~Failed(t.res))
      => store[t.chat] = ReceiveFromFiletype /\ t.sent = <<"choose_from">>

\* C7 (as claimed): a delivery that does not decode never ends the
\* consumer.
C7_MalformedNeverStops ==
  ~(/\ consumer.pc = "stopped"
    /\ consumer.cur # NoDelivery
    /\ Decode(consumer.cur).kind = "Error")

\* C8 (as claimed): a chat that a document has taken from ReceiveInputFile
\* to Start has its request published and confirmed.
C8_IdleOnlyAfterSubmission ==
  \A t \in tasks :
    (t.handler = "receive_input_file" /\ t.saved)
      => t.pub # <<>> /\ t.res = "ok"

\* C9: the events of one chat are handled one at a time: no two handler
\* invocations of a chat are in flight together, and the state an
\* invocation was entered with is the stored one until it saves its own.
C9_Serialized ==
  /\ \A t1, t2 \in tasks : t1.chat = t2.chat => t1 = t2
  /\ \A t \in tasks : ~t.saved => store[t.chat] = t.state

\* C9 witness: a second event of a chat is being handled, entered with the
\* state the first event's handler saved.
C9_Witness ==
  \E t \in tasks :
    /\ t.pc \notin {"done"}
    /\ t.res = "running"
    /\ hist[t.chat].base = ReceiveFromFiletype
    /\ Len(hist[t.chat].evs) = 1
    /\ AllOk(hist[t.chat].res)
    /\ t.state = ReceiveToFiletype(hist[t.chat].evs[1].data)

\* C10: a chat's stored state changes only in the dialogue.update of a
\* handler of that chat, to the state built from that handler's own loaded
\* state and update; so a target choice handled with Ok(()) leaves its
\* chat in ReceiveInputFile with the source format of that chat and the
\* target format chosen in it.
C10_NoInterference ==
  /\ [](\A t \in tasks :
          (/\ t.handler = "receive_to_filetype"
           /\ t.upd.data \in TO_FILETYPES
           /\ t.pc = "done"
           /\ t.res = "ok")
            => store[t.chat] =
                 ReceiveInputFile(t.state.from_filetype, t.upd.data))
  /\ [][\A c \in Chats :
          store'[c] # store[c]
            => \E t \in tasks :
                 /\ t.chat = c
                 /\ t.pc = "update"
                 /\ store'[c] =
                      (CASE t.handler = "start" -> ReceiveFromFiletype
                         [] t.handler = "receive_from_filetype" ->
                              ReceiveToFiletype(t.upd.data)
                         [] t.handler = "receive_to_filetype" ->
                              ReceiveInputFile(t.state.from_filetype,
                                               t.upd.data)
                         [] OTHER -> Start)]_vars

\* C10 witness: two chats have each just reached ReceiveInputFile, with
\* different target formats.
C10_Witness ==
  \E t1, t2 \in tasks :
    /\ t1.chat # t2.chat
    /\ t1.handler = "receive_to_filetype" /\ t1.pc = "done" /\ t1.res = "ok"
    /\ t2.handler = "receive_to_filetype" /\ t2.pc = "done" /\ t2.res = "ok"
    /\ t1.upd.data # t2.upd.data
    /\ store[t1.chat] = ReceiveInputFile("markdown", t1.upd.data)
    /\ store[t2.chat] = ReceiveInputFile("markdown", t2.upd.data)

\* C11: redelivery is idempotent: no step of the consumer changes any
\* chat's stored state, and a response consumed right after an equal one
\* gets the same Messenger call as the first.
C11_RedeliveryIdempotent ==
  /\ [](\A i \in DOMAIN consumer.prev :
          (consumer.prev[i].doc = consumer.cur /\ consumer.sent # <<>>)
            => consumer.sent = <<consumer.prev[i].msg>>)
  /\ [][consumer' # consumer => store' = store]_vars

\* C11 witness: the same response has been consumed and routed twice in a
\* row, while its chat has moved on in its dialogue.
C11_Witness ==
  /\ consumer.pc = "next"
  /\ Len(consumer.sent) = 1
  /\ consumer.prev # <<>>
  /\ consumer.prev[1].doc = consumer.cur
  /\ store[consumer.cur.chat_id] = ReceiveFromFiletype

\* The handler of chat c has moved on in this step.
Stepped(t, u) == u \in tasks' /\ u.chat = t.chat /\ u # t

\* C12: every change of a chat's stored state is one step forward on the
\* cycle Start, ReceiveFromFiletype, ReceiveToFiletype, ReceiveInputFile,
\* Start; a handler writes at most once, and an event whose acceptance
\* message was sent and whose handler returned Ok(()) was written once.
C12_ForwardOneStep ==
  /\ [][\A c \in Chats :
          store'[c] # store[c]
            => <<store[c].tag, store'[c].tag>> \in
                 {<<"Start", "ReceiveFromFiletype">>,
                  <<"ReceiveFromFiletype", "ReceiveToFiletype">>,
                  <<"ReceiveToFiletype", "ReceiveInputFile">>,
                  <<"ReceiveInputFile", "Start">>}]_vars
  /\ [][\A t \in tasks :
          t.saved => \A u \in tasks' : u.chat = t.chat
                                          => store'[t.chat] = store[t.chat]]_vars
  /\ [](\A t \in tasks :
          (/\ t.pc = "done"
           /\ t.res = "ok"
           /\ t.sent \in {<<"choose_from">>, <<"from_set_choose_to">>,
                           <<"to_set_send_file">>, <<"converting">>})
            => t.saved)

\* C12 witness: a chat has taken two steps of the cycle in a row, from
\* ReceiveFromFiletype to ReceiveInputFile.
C12_Witness ==
  \E c \in Chats :
    /\ Idle(c)
    /\ hist[c].base = ReceiveFromFiletype
    /\ Len(hist[c].evs) = 2
    /\ AllOk(hist[c].res)
    /\ store[c].tag = "ReceiveInputFile"

\* C13: every stored state is Start, ReceiveFromFiletype, ReceiveToFiletype
\* with a source format of FROM_FILETYPES, or ReceiveInputFile with a
\* source format of FROM_FILETYPES and a target format of TO_FILETYPES;
\* and ReceiveInputFile carries the source format of the ReceiveToFiletype
\* state it was reached from.
C13_WellFormed ==
  /\ [](\A c \in Chats :
          /\ store[c].tag \in {"Start", "ReceiveFromFiletype",
                               "ReceiveToFiletype", "ReceiveInputFile"}
          /\ store[c].tag \in {"ReceiveToFiletype", "ReceiveInputFile"}
               => store[c].from_filetype \in {"markdown"}
          /\ store[c].tag = "ReceiveInputFile"
               => store[c].to_filetype \in {"pdf", "latex", "docx", "odt"})
  /\ [][\A c \in Chats :
          (store[c].tag = "ReceiveToFiletype"
             /\ store'[c].tag = "ReceiveInputFile")
            => store'[c].from_filetype = store[c].from_filetype]_vars

\* C13 witness: a target choice has been saved, the chat now in
\* ReceiveInputFile with the source format it held and the format chosen.
C13_Witness ==
  \E t \in tasks :
    /\ t.handler = "receive_to_filetype"
    /\ t.saved
    /\ t.upd.data = "odt"
    /\ store[t.chat] = ReceiveInputFile(t.state.from_filetype, "odt")

\* The step in which the dialogue.update of invocation t fails.
SaveFailed(t) ==
  /\ t.pc = "update"
  /\ \E u \in tasks' : Stepped(t, u) /\ u.pc = "done" /\ u.res = "err"

\* C14 (as claimed): when dialogue.update fails the stored state is
\* unchanged, the handler returns the error and no part of the transition
\* has taken effect: no request published, no message of it sent.
C14_SaveFailureNoEffect ==
  [][\A t \in tasks :
       SaveFailed(t)
         => /\ store' = store
            /\ jobs' = jobs
            /\ t.pub = <<>>
            /\ t.sent = <<>>]_vars

\* C14 (amended): when dialogue.update fails the stored state is
\* unchanged, the handler returns the error having published no request,
\* and the acceptance message of the transition has already been sent.
C14_SaveFailureKeepsState ==
  /\ [][\A t \in tasks :
          SaveFailed(t)
            => /\ store' = store
               /\ jobs' = jobs
               /\ \A u \in tasks' :
                    Stepped(t, u)
                      => /\ ~u.saved
                         /\ u.pub = <<>>
                         /\ u.sent = t.sent
                         /\ Len(u.sent) = 1]_vars
  /\ [](\A t \in tasks : t.pub # <<>> => t.saved)

\* C14 witness: the dialogue.update of a receive_input_file has failed
\* after "converting" was sent: the chat still awaits the file and the
\* job queue is empty.
C14_Witness ==
  \E t \in tasks :
    /\ t.handler = "receive_input_file"
    /\ t.pc = "done"
    /\ t.res = "err"
    /\ ~t.saved
    /\ t.sent = <<"converting">>
    /\ store[t.chat] = t.state
    /\ jobs = <<>>

\* C15 (as claimed): once main has closed the connection the consumer
\* takes no new delivery, and a delivery it holds is handled to the end:
\* its acknowledgement goes through.
C15_GracefulShutdown ==
  [][main = "closed"
       => /\ consumer.pc = "next" => consumer'.cur = consumer.cur
          /\ (consumer.pc = "ack" /\ consumer' # consumer)
               => consumer'.acked]_vars

\* C16: a request is put on the job queue only by a receive_input_file
\* that has already saved State::Start for its chat: in the step that
\* publishes, the chat of the request is stored as Start.
C16_IdleBeforeRequest ==
  /\ [][Len(jobs') > Len(jobs)
          => /\ store[jobs'[Len(jobs')].chat_id] = Start
             /\ store' = store]_vars
  /\ [](\A t \in tasks :
          t.pub # <<>> => t.saved /\ t.handler = "receive_input_file")

\* C16 witness: a request is on the job queue, its handler has returned
\* Ok(()) and its chat is stored as Start.
C16_Witness ==
  \E t \in tasks :
    /\ t.pc = "done"
    /\ t.res = "ok"
    /\ Len(t.pub) = 1
    /\ jobs # <<>>
    /\ jobs[Len(jobs)] = t.pub[1]
    /\ store[t.chat] = Start

\* C17: the request a receive_input_file publishes names the handler's own
\* chat and the formats of the ReceiveInputFile state that chat was in
\* when the document arrived, whatever the other chats do meanwhile.
C17_RequestOfItsChat ==
  /\ [][Len(jobs') > Len(jobs)
          => \E t \in tasks :
               /\ t.pc = "publish"
               /\ \E u \in tasks' : Stepped(t, u) /\ Len(u.pub) = 1
               /\ t.state.tag = "ReceiveInputFile"
               /\ jobs'[Len(jobs')].chat_id = t.chat
               /\ jobs'[Len(jobs')].from_filetype = t.state.from_filetype
               /\ jobs'[Len(jobs')].to_filetype = t.state.to_filetype
               /\ jobs'[Len(jobs')].file_id = t.upd.doc]_vars
  /\ [](\A t \in tasks : \A i \in DOMAIN t.pub :
          /\ t.pub[i].chat_id = t.chat
          /\ t.pub[i].from_filetype = t.state.from_filetype
          /\ t.pub[i].to_filetype = t.state.to_filetype)

\* C17 witness: the requests of two chats with different target formats
\* are on the job queue together.
C17_Witness ==
  /\ Len(jobs) = 2
  /\ jobs[1].chat_id # jobs[2].chat_id
  /\ jobs[1].to_filetype # jobs[2].to_filetype

\* C18 (as claimed): a Messenger failure while a response is handled
\* never ends the consumer.
C18_SurvivesSendFailure ==
  ~(consumer.pc = "stopped" /\ consumer.acked /\ consumer.sent = <<>>)

\* C19: a handler saves a state only after it has sent the acceptance
\* message; when the only send of a handler fails the handler returns
\* the error with the stored state as it was.
C19_SentBeforeSaved ==
  /\ [](\A t \in tasks :
          /\ t.saved
               => t.sent \in {<<"choose_from">>, <<"from_set_choose_to">>,
                              <<"to_set_send_file">>, <<"converting">>}
          /\ t.sent = <<>> => ~t.saved /\ store[t.chat] = t.state)
  /\ [][\A t \in tasks :
          (t.pc = "send"
             /\ \E u \in tasks' : Stepped(t, u) /\ u.sent = <<>>)
            => /\ store' = store
               /\ \A u \in tasks' :
                    Stepped(t, u) => u.pc = "done" /\ u.res = "err"]_vars

\* C19 witness: the send of start has failed on a message from Start: the
\* handler has returned the error and the chat is still stored as Start.
C19_Witness ==
  \E t \in tasks :
    /\ t.handler = "start"
    /\ t.pc = "done"
    /\ t.res = "err"
    /\ t.sent = <<>>
    /\ ~t.saved
    /\ store[t.chat] = Start

====
